---- MODULE Spec2Model ----
(***************************************************************************)
(* A model of iconify-loader: the IconifyLoader pipeline (validate,        *)
(* collect, transform, render), the SVGOptimizer adapter that shapes the   *)
(* configuration handed to the optimization engine, the content checks of  *)
(* FileReader and the three output generators.                             *)
(*                                                                         *)
(* JavaScript objects are functions from the keys that are present to      *)
(* their values: a key that is absent is `undefined`, and object spread    *)
(* is Spread below.  Strings that the code inspects are sequences of       *)
(* tokens or of characters.  A thrown error is the chain of error kinds,   *)
(* outermost first: wrapping an error puts the wrapper's kind in front     *)
(* (the wrapped error is kept as details.originalError).                   *)
(***************************************************************************)
EXTENDS Integers, Sequences, FiniteSets, TLC

VARIABLES
  options,      \* the IconifyLoaderOptions given to load / the constructor
  tree,         \* the entries of the input directory, in listing order,
                \* a subdirectory holding its own entries
  fsFault,      \* 0: the input reads succeed; -1: listing the input
                \* directory fails; k >= 1: the k-th operation of the walk
                \* after that listing fails
  pc,           \* where the run is
  files,        \* the FileInfo list returned by the walker
  processed,    \* the ProcessedSVG list built by processSVGs
  engineLog,    \* per transformed file: "ok", "error" or "skipped"
  engineCalls,  \* the configurations handed to the optimization engine
  result,       \* the GenerationResult under construction
  indFiles,     \* JSONGenerator.generateIndividualJSONFiles' local list
  writes,       \* every output write attempted, in order, with the
                \* generator that made it and, for a component or an
                \* aggregate file, what was written
  mkdirs,       \* number of output directory creations attempted
  disk,         \* the output paths written so far
  thrown,       \* the error the caller receives (<<>>: none)
  failedAt,     \* the phase in which the run threw ("": none)
  reads,        \* number of input files read
  userOpts,     \* the options of a direct SVGOptimizer.optimizeSVG call
  optPc,        \* where the direct optimizeSVG call is
  invoked,      \* the generator calls made: the generator and its svgs
  inflight,     \* the awaited operations issued and not yet settled
  walked,       \* number of operations of the walk that have settled
  dirs,         \* the output directories that exist
  moduleDefaults, \* the module-level default objects as they are now:
                \* SVGOptimizer.defaultOptions and ReactGenerator.defaultProps
  calls,        \* number of calls made in a sequence of calls
  effective     \* the latest call of a sequence: its name, the options
                \* given to it and the options in effect for it

vars == <<options, tree, fsFault, pc, files, processed, engineLog, engineCalls,
          result, indFiles, writes, mkdirs, disk, thrown, failedAt, reads,
          userOpts, optPc, invoked, inflight, walked, dirs, moduleDefaults,
          calls, effective>>

\* the variables of a sequence of calls
sessionVars == <<moduleDefaults, calls, effective>>

\* the variables of one run of load or of one optimizeSVG call
runVars == <<options, tree, fsFault, pc, files, processed, engineLog,
             engineCalls, result, indFiles, writes, mkdirs, disk, thrown,
             failedAt, reads, userOpts, optPc, invoked, inflight, walked,
             dirs>>

pipelineVars == <<options, tree, fsFault, pc, files, processed, engineLog,
                  result, indFiles, writes, mkdirs, disk, thrown, failedAt,
                  reads, invoked, inflight, walked, dirs>>

-----------------------------------------------------------------------------
(* Bounds *)

MaxFiles == 2
MaxPlugins == 2

-----------------------------------------------------------------------------
(* JavaScript objects *)

EmptyObj == <<>>

Has(o, k) == k \in DOMAIN o

\* { ...a, ...b }
Spread(a, b) ==
  [k \in DOMAIN a \cup DOMAIN b |-> IF k \in DOMAIN b THEN b[k] ELSE a[k]]

\* o.k is truthy, for a key holding a boolean
TruthyBool(o, k) == Has(o, k) /\ o[k] = TRUE

\* o.k !== false
NotFalse(o, k) == ~(Has(o, k) /\ o[k] = FALSE)

\* o.k is truthy, for a key holding a string
TruthyStr(o, k) == Has(o, k) /\ o[k] # ""

\* the objects that hold key k with one of vals, or do not hold it
OptField(k, vals) == {EmptyObj} \cup {[x \in {k} |-> v] : v \in vals}

\* sequences over S of length at most n
SeqUpTo(S, n) == UNION {[1..m -> S] : m \in 0..n}

-----------------------------------------------------------------------------
(* Errors *)

NoError == <<>>

Wrap(kind, err) == <<kind>> \o err

Kind(err) == err[1]

-----------------------------------------------------------------------------
(* SVGOptimizer *)

defaultOptions ==
  [multipass |-> TRUE, floatPrecision |-> 2, transformPrecision |-> 5,
   makePathsRelative |-> TRUE, convertShapeToPath |-> TRUE,
   mergePaths |-> TRUE, convertTransform |-> TRUE,
   removeOffCanvasPaths |-> TRUE, removeDimensions |-> FALSE,
   removeAttrs |-> FALSE, removeElementsByAttr |-> FALSE,
   addClassesToSVG |-> FALSE, removeTitle |-> TRUE, removeDesc |-> TRUE,
   removeUselessStrokeAndFill |-> TRUE, removeUnusedNS |-> TRUE,
   cleanupListOfValues |-> TRUE, sortAttrs |-> TRUE, removeDoctype |-> TRUE,
   removeXMLProcInst |-> TRUE, removeComments |-> TRUE,
   removeMetadata |-> TRUE, removeEditorsNSData |-> TRUE,
   removeEmptyAttrs |-> TRUE, removeHiddenElems |-> TRUE,
   removeEmptyText |-> TRUE, removeEmptyContainers |-> TRUE,
   minifyStyles |-> TRUE, convertStyleToAttrs |-> TRUE,
   convertColors |-> TRUE, convertPathData |-> TRUE,
   convertEllipseToCircle |-> TRUE, convertUseToSymbol |-> FALSE,
   convertSymbolToPath |-> FALSE, convertPolygonToPath |-> FALSE,
   moveGroupAttrsToElems |-> TRUE, moveElemsAttrsToGroup |-> TRUE,
   collapseGroups |-> TRUE, convertGToUse |-> FALSE, reusePaths |-> FALSE]

\* SVGOptimizer.mergeOptions, over the default options as the class holds
\* them when it is called
SvgoMergeFrom(defaults, user) ==
  LET merged == Spread(defaults, user)
  IN  IF Has(user, "plugins")
        THEN Spread(merged, [plugins |-> user.plugins])
        ELSE IF ~Has(merged, "plugins")
               THEN Spread(merged, [plugins |-> <<>>])
               ELSE merged

\* a mutant of DefaultsAfterSpread: the given keys are assigned into the
\* defaults object itself, as Object.assign(defaults, given) does
DefaultsAfterSpread_Assign(defaults, given) == Spread(defaults, given)

\* the defaults object after `{ ...defaults, ...given }` and the assignments
\* that follow it: the literal is a new object and every later assignment
\* (result.plugins = ..., mergedProps[key] = ...) goes to that new object
DefaultsAfterSpread(defaults, given) == defaults

\* SVGOptimizer.mergeOptions: the defaults overridden by the user's keys; the
\* result always holds a plugins list (the user's, or the empty one)
SvgoMergeOptions(user) == SvgoMergeFrom(defaultOptions, user)

\* the preset-default entry that buildSVGOPlugins generates from the toggles
PresetEntry(o) ==
  [name |-> "preset-default",
   params |-> [overrides |->
     [removeViewBox |-> FALSE,
      removeDimensions |-> TruthyBool(o, "removeDimensions"),
      removeAttrs |-> TruthyBool(o, "removeAttrs"),
      removeElementsByAttr |-> TruthyBool(o, "removeElementsByAttr"),
      addClassesToSVG |-> TruthyBool(o, "addClassesToSVG"),
      removeTitle |-> NotFalse(o, "removeTitle"),
      removeDesc |-> NotFalse(o, "removeDesc"),
      removeUselessStrokeAndFill |-> NotFalse(o, "removeUselessStrokeAndFill"),
      removeUnusedNS |-> NotFalse(o, "removeUnusedNS"),
      cleanupListOfValues |-> NotFalse(o, "cleanupListOfValues"),
      sortAttrs |-> NotFalse(o, "sortAttrs"),
      removeDoctype |-> NotFalse(o, "removeDoctype"),
      removeXMLProcInst |-> NotFalse(o, "removeXMLProcInst"),
      removeComments |-> NotFalse(o, "removeComments"),
      removeMetadata |-> NotFalse(o, "removeMetadata"),
      removeEditorsNSData |-> NotFalse(o, "removeEditorsNSData"),
      removeEmptyAttrs |-> NotFalse(o, "removeEmptyAttrs"),
      removeHiddenElems |-> NotFalse(o, "removeHiddenElems"),
      removeEmptyText |-> NotFalse(o, "removeEmptyText"),
      removeEmptyContainers |-> NotFalse(o, "removeEmptyContainers"),
      minifyStyles |-> NotFalse(o, "minifyStyles"),
      convertStyleToAttrs |-> NotFalse(o, "convertStyleToAttrs"),
      convertColors |-> NotFalse(o, "convertColors"),
      convertPathData |-> NotFalse(o, "convertPathData"),
      convertEllipseToCircle |-> NotFalse(o, "convertEllipseToCircle"),
      convertUseToSymbol |-> TruthyBool(o, "convertUseToSymbol"),
      convertSymbolToPath |-> TruthyBool(o, "convertSymbolToPath"),
      convertPolygonToPath |-> TruthyBool(o, "convertPolygonToPath"),
      moveGroupAttrsToElems |-> NotFalse(o, "moveGroupAttrsToElems"),
      moveElemsAttrsToGroup |-> NotFalse(o, "moveElemsAttrsToGroup"),
      collapseGroups |-> NotFalse(o, "collapseGroups"),
      convertGToUse |-> TruthyBool(o, "convertGToUse"),
      reusePaths |-> TruthyBool(o, "reusePaths")]]]

\* SVGOptimizer.buildSVGOPlugins: the preset entry, then the options' plugins
buildSVGOPlugins(o) ==
  <<PresetEntry(o)>> \o (IF Has(o, "plugins") THEN o.plugins ELSE <<>>)

\* the svgoConfig literal of optimizeSVG:
\*   { plugins: this.buildSVGOPlugins(mergedOptions), ...mergedOptions }
\* the spread comes second, so a key of mergedOptions wins over the literal's
SvgoConfig(user) ==
  LET mergedOptions == SvgoMergeOptions(user)
  IN  Spread([plugins |-> buildSVGOPlugins(mergedOptions)], mergedOptions)

\* a mutant of PrecisionOutOfRange: the upper limit is taken as exclusive
PrecisionOutOfRange_Exclusive(o, p) == Has(o, p) /\ (o[p] < 0 \/ o[p] >= 10)

\* options.p !== undefined && (options.p < 0 || options.p > 10)
PrecisionOutOfRange(o, p) == Has(o, p) /\ (o[p] < 0 \/ o[p] > 10)

\* SVGOptimizer.validateOptions: the error it throws, or NoError
SvgoValidateOptions(o) ==
  IF PrecisionOutOfRange(o, "floatPrecision")
    THEN <<"SVGProcessingError">>
    ELSE IF PrecisionOutOfRange(o, "transformPrecision")
           THEN <<"SVGProcessingError">>
           ELSE NoError

-----------------------------------------------------------------------------
(* FileReader *)

\* String.prototype.trim on a token sequence: " " is a run of whitespace
RECURSIVE TrimStart(_)
TrimStart(c) ==
  IF c # <<>> /\ Head(c) = " " THEN TrimStart(Tail(c)) ELSE c

RECURSIVE TrimEnd(_)
TrimEnd(c) ==
  IF c # <<>> /\ c[Len(c)] = " " THEN TrimEnd(SubSeq(c, 1, Len(c) - 1)) ELSE c

Trim(c) == TrimStart(TrimEnd(c))

Includes(c, tok) == \E i \in 1..Len(c) : c[i] = tok

StartsWith(c, tok) == c # <<>> /\ c[1] = tok

EndsWith(c, tok) == c # <<>> /\ c[Len(c)] = tok

\* a mutant of ValidateSVGContent: the check for a closing tag is missing
ValidateSVGContent_NoCloseCheck(content) ==
  IF content = <<>>
    THEN <<"ValidationError">>
    ELSE IF ~Includes(Trim(content), "<svg")
      THEN <<"SVGProcessingError">>
      ELSE NoError

\* FileReader.validateSVGContent: the error it throws, or NoError
ValidateSVGContent(content) ==
  IF content = <<>>
    THEN <<"ValidationError">>
    ELSE LET trimmedContent == Trim(content)
         IN  IF ~StartsWith(trimmedContent, "<svg")
                /\ ~Includes(trimmedContent, "<svg")
               THEN <<"SVGProcessingError">>
               ELSE IF ~Includes(trimmedContent, "</svg>")
                       /\ ~EndsWith(trimmedContent, "/>")
                      THEN <<"SVGProcessingError">>
                      ELSE NoError

\* FileReader.extractSVGAttributes matches five patterns of the shape
\* /name\s*=\s*["']([^"']+)["']/i anywhere in the content.  An attribute of
\* a content is a name token ending in "=" followed by its value token; the
\* table gives, per pattern, the name tokens in which the pattern finds its
\* name directly before the "=" (the patterns are not anchored at a word
\* boundary and ignore case).
AttrPatternTokens ==
  [viewBox |-> {"viewBox=", "viewbox="},
   width   |-> {"width=", "stroke-width="},
   height  |-> {"height="},
   fill    |-> {"fill="},
   stroke  |-> {"stroke="}]

\* content.match(pattern): the position of the first match, 0 for null
FirstMatch(content, attr) ==
  LET hits == {i \in 1..(Len(content) - 1) :
                 content[i] \in AttrPatternTokens[attr]}
  IN  IF hits = {} THEN 0 ELSE CHOOSE i \in hits : \A j \in hits : i <= j

\* FileReader.extractSVGAttributes: a key per pattern that matched, holding
\* the first match's captured value
ExtractSVGAttributes(content) ==
  LET found == {a \in DOMAIN AttrPatternTokens : FirstMatch(content, a) > 0}
  IN  [a \in found |-> content[FirstMatch(content, a) + 1]]

\* A path is the sequence of its segments, each a name and an extension
\* ("" for a directory); the names are sequences of characters.
DirChars(dir) == IF dir = "icons" THEN <<"i", "c", "o", "n", "s">> ELSE <<>>

RootPath(inputDir) == <<[name |-> DirChars(inputDir), ext |-> ""]>>

\* path.join(dirPath, entry.name)
JoinPath(dirPath, e) == Append(dirPath, [name |-> e.name, ext |-> e.ext])

\* new RegExp(pattern).test(filePath).  A pattern is a literal name, with or
\* without a closing "$".  No name of the model is part of another, so the
\* literal occurs in the path exactly when it is one of its names; with the
\* "$" it must be the end of the path, which no file path is (a file path
\* ends in its extension).
PatternTest(p, filePath) ==
  IF p.atEnd
    THEN /\ filePath[Len(filePath)].name = p.seg
         /\ filePath[Len(filePath)].ext = ""
    ELSE \E i \in 1..Len(filePath) : filePath[i].name = p.seg

\* FileReader.shouldIgnorePath
ShouldIgnorePath(filePath, ignorePatterns) ==
  \E i \in 1..Len(ignorePatterns) : PatternTest(ignorePatterns[i], filePath)

\* FileReader.getFileInfo: the FileInfo of the file at filePath, whose
\* content is that of the directory entry e
GetFileInfo(filePath, e) ==
  [path |-> filePath, name |-> filePath[Len(filePath)].name,
   extension |-> filePath[Len(filePath)].ext, content |-> e.content]

\* the loop of FileReader.readDirectoryRecursive over the listing of
\* dirPath: the file system operations it issues after the listing, in
\* order, when none of them fails.  `depth` counts the frames of
\* readDirectoryRecursive that are open.
RECURSIVE WalkEntries(_, _, _, _, _)
WalkEntries(dirPath, entries, includeSubdirs, ignorePatterns, depth) ==
  IF entries = <<>>
    THEN <<>>
    ELSE LET entry == Head(entries)
             fullPath == JoinPath(dirPath, entry)
             here ==
               IF ShouldIgnorePath(fullPath, ignorePatterns)
                 THEN <<>>
                 ELSE IF entry.kind = "dir" /\ includeSubdirs
                   THEN <<[op |-> "readdir", depth |-> depth + 1,
                           path |-> fullPath, entry |-> entry]>>
                        \o WalkEntries(fullPath, entry.children,
                                       includeSubdirs, ignorePatterns,
                                       depth + 1)
                   ELSE IF entry.kind = "file"
                     THEN <<[op |-> "read", depth |-> depth,
                             path |-> fullPath, entry |-> entry]>>
                     ELSE <<>>
         IN  here \o WalkEntries(dirPath, Tail(entries), includeSubdirs,
                                 ignorePatterns, depth)

\* every operation of the walk: the listing of the input directory first
WalkOps(inputDir, includeSubdirs, ignorePatterns, entries) ==
  <<[op |-> "readdir", depth |-> 1, path |-> RootPath(inputDir),
     entry |-> [name |-> DirChars(inputDir), ext |-> "", content |-> <<>>,
                kind |-> "dir", children |-> entries]]>>
  \o WalkEntries(RootPath(inputDir), entries, includeSubdirs,
                 ignorePatterns, 1)

\* the error of a failed operation after n catch blocks wrapped it
RECURSIVE Caught(_)
Caught(n) ==
  IF n = 0 THEN <<"Error">> ELSE Wrap("FileSystemError", Caught(n - 1))

\* the catch blocks around an operation: getFileInfo's for a read, one per
\* open frame of readDirectoryRecursive, and readSVGFiles'
Catches(o) == (IF o.op = "read" THEN 1 ELSE 0) + o.depth + 1

NumReads(ops) == Len(SelectSeq(ops, LAMBDA o : o.op = "read"))

\* a mutant of ReadSVGFiles: the files read are returned without the filter
\* on the extension
ReadSVGFiles_KeepsAll(inputDir, includeSubdirs, ignorePatterns, entries, fault) ==
  LET ops == WalkEntries(RootPath(inputDir), entries, includeSubdirs,
                         ignorePatterns, 1)
  IN  IF fault = -1
        THEN [err |-> Caught(2), files |-> <<>>, reads |-> 0]
        ELSE IF fault \in 1..Len(ops)
          THEN [err |-> Caught(Catches(ops[fault])), files |-> <<>>,
                reads |-> NumReads(SubSeq(ops, 1, fault))]
          ELSE LET read == SelectSeq(ops, LAMBDA o : o.op = "read")
               IN  [err |-> NoError,
                    files |-> [i \in 1..Len(read) |->
                                 GetFileInfo(read[i].path, read[i].entry)],
                    reads |-> Len(read)]

\* FileReader.readSVGFiles(inputDir, includeSubdirs, ignorePatterns) over the
\* listing `entries`: every file met is read, in order, then the .svg ones
\* are kept.  `fault` = -1 fails the listing of inputDir, k >= 1 fails the
\* k-th operation after it, 0 none.
ReadSVGFiles(inputDir, includeSubdirs, ignorePatterns, entries, fault) ==
  LET ops == WalkEntries(RootPath(inputDir), entries, includeSubdirs,
                         ignorePatterns, 1)
  IN  IF fault = -1
        THEN [err |-> Caught(2), files |-> <<>>, reads |-> 0]
        ELSE IF fault \in 1..Len(ops)
          THEN [err |-> Caught(Catches(ops[fault])), files |-> <<>>,
                reads |-> NumReads(SubSeq(ops, 1, fault))]
          ELSE LET read == SelectSeq(ops, LAMBDA o : o.op = "read")
               IN  [err |-> NoError,
                    files |-> SelectSeq([i \in 1..Len(read) |->
                                GetFileInfo(read[i].path, read[i].entry)],
                                LAMBDA f : f.extension = ".svg"),
                    reads |-> Len(read)]

-----------------------------------------------------------------------------
(* IconifyLoader *)

validFormats == {"svg", "react", "json"}

\* a mutant of ValidateOptions: the format is not checked against the list
ValidateOptions_NoFormatList(o) ==
  IF ~TruthyStr(o, "inputDir")
    THEN <<"ValidationError">>
    ELSE IF ~TruthyStr(o, "format")
      THEN <<"ValidationError">>
      ELSE IF Has(o, "svgoOptions")
        THEN SvgoValidateOptions(o.svgoOptions)
        ELSE NoError

\* IconifyLoader.validateOptions: the error it throws, or NoError
ValidateOptions(o) ==
  IF ~TruthyStr(o, "inputDir")
    THEN <<"ValidationError">>
    ELSE IF ~TruthyStr(o, "format")
      THEN <<"ValidationError">>
      ELSE IF o.format \notin validFormats
        THEN <<"ValidationError">>
        ELSE IF Has(o, "svgoOptions")
          THEN SvgoValidateOptions(o.svgoOptions)
          ELSE NoError

\* a mutant of ProcessCatch: only the message of the error is kept, the
\* error itself is dropped from the details
ProcessCatch_MessageOnly(err) == <<"SVGProcessingError">>

\* a mutant of ProcessCatch: the error is re-thrown as it is
ProcessCatch_Rethrow(err) == err

\* the catch of IconifyLoader.process: whatever was thrown is re-thrown as an
\* SVGProcessingError holding it as details.originalError
ProcessCatch(err) == Wrap("SVGProcessingError", err)

\* a mutant of NoFilesFound: an empty result is not treated as fatal
NoFilesFound_Never(found) == FALSE

\* readSVGs' own check of the walker's result
NoFilesFound(found) == Len(found) = 0

\* IconifyLoader.readSVGs: the error it throws, or NoError.  Its catch passes
\* a ValidationError through and wraps anything else in a FileSystemError.
ReadSVGsThrows(found, err) ==
  IF err # NoError
    THEN Wrap("FileSystemError", err)
    ELSE IF NoFilesFound(found) THEN <<"ValidationError">> ELSE NoError

\* what the optimization engine returns for a content it accepts
EngineData(content) == <<"svgo:">> \o content

\* processSVGs' metadata literal: { name, originalName, path, size,
\* ...attributes }, the attributes extracted from the file's own content
Metadata(file) ==
  Spread([name |-> file.name, originalName |-> file.name,
          path |-> file.path, size |-> Len(file.content)],
         ExtractSVGAttributes(file.content))

\* a mutant of ProcessedItem: the flag is set before the optimizer is awaited
ProcessedItem_FlagEarly(file, requested, engineOk) ==
  [metadata |-> Metadata(file),
   content |-> IF requested /\ engineOk
                 THEN EngineData(file.content) ELSE file.content,
   optimized |-> requested]

\* the ProcessedSVG that processSVGs pushes for a file: `requested` is
\* options.optimize, `engineOk` whether optimizeSVG returned
ProcessedItem(file, requested, engineOk) ==
  [metadata |-> Metadata(file),
   content |-> IF requested /\ engineOk
                 THEN EngineData(file.content) ELSE file.content,
   optimized |-> requested /\ engineOk]

\* this.options.svgoOptions as optimizeSVG sees it (its default is {})
SvgoOptionsOf(o) == IF Has(o, "svgoOptions") THEN o.svgoOptions ELSE EmptyObj

-----------------------------------------------------------------------------
(* Names and output paths.  A name is a sequence of characters. *)

LowerChars == <<"a", "e", "h", "l", "m", "o", "r", "s", "t", "u", "w", "x">>
UpperChars == <<"A", "E", "H", "L", "M", "O", "R", "S", "T", "U", "W", "X">>
Digits == {"0", "1", "2", "3", "4", "5", "6", "7", "8", "9"}

IsLower(c) == \E i \in 1..Len(LowerChars) : LowerChars[i] = c
IsUpper(c) == \E i \in 1..Len(UpperChars) : UpperChars[i] = c

\* /[a-zA-Z0-9]/
IsAlnum(c) == IsLower(c) \/ IsUpper(c) \/ c \in Digits

ToUpper(c) ==
  IF IsLower(c)
    THEN UpperChars[CHOOSE i \in 1..Len(LowerChars) : LowerChars[i] = c]
    ELSE c

ToLower(c) ==
  IF IsUpper(c)
    THEN LowerChars[CHOOSE i \in 1..Len(UpperChars) : UpperChars[i] = c]
    ELSE c

\* ReactGenerator.getComponentName's default: every character that is not
\* alphanumeric ends a word and is dropped, each word gets its first
\* character upper-cased and the rest lower-cased, the words are joined.
\* `start` says that the next character begins a word.
RECURSIVE PascalCase(_, _)
PascalCase(name, start) ==
  IF name = <<>>
    THEN <<>>
    ELSE IF ~IsAlnum(Head(name))
      THEN PascalCase(Tail(name), TRUE)
      ELSE <<IF start THEN ToUpper(Head(name)) ELSE ToLower(Head(name))>>
             \o PascalCase(Tail(name), FALSE)

\* a mutant of GetComponentName: the first character is left as it is
GetComponentName_NoCapital(name) ==
  IF name = <<>>
    THEN <<>>
    ELSE IF IsAlnum(Head(name))
      THEN <<Head(name)>> \o PascalCase(Tail(name), FALSE)
      ELSE PascalCase(name, TRUE)

GetComponentName(name) == PascalCase(name, TRUE)

\* the fileNameFormatter of the README's advanced example, the one custom
\* formatter of the inputs: (name) => `icon-${name.toLowerCase()}`
FileNameFormatter(name) ==
  <<"i", "c", "o", "n", "-">> \o [i \in 1..Len(name) |-> ToLower(name[i])]

\* options.outputDir ? path.join(options.outputDir, fileName) : `./${fileName}`
\* A file name is a base and the extension appended to it ("": none).
OutPath(o, base, ext) ==
  <<IF TruthyStr(o, "outputDir") THEN o.outputDir ELSE ".", base, ext>>

\* ReactGenerator.generateComponentFile: the path of an icon's component
ComponentPath(o, svg) ==
  LET componentName == GetComponentName(svg.metadata.name)
  IN  IF Has(o, "fileNameFormatter")
        THEN OutPath(o, FileNameFormatter(componentName), "")
        ELSE OutPath(o, componentName,
                     IF TruthyBool(o, "typescript") THEN ".tsx" ELSE ".jsx")

\* ReactGenerator.defaultProps
defaultProps ==
  [width |-> "1em", height |-> "1em", fill |-> "currentColor"]
    @@ ("aria-hidden" :> "true")

\* the attributes that extractSVGAttributes can put into the metadata and
\* that generateProps copies over the merged props
MetadataProps == {"width", "height", "viewBox", "fill", "stroke"}

\* the svgProps of a configuration ({} when there are none)
SvgPropsOf(o) == IF Has(o, "svgProps") THEN o.svgProps ELSE EmptyObj

\* ReactGenerator.generateProps over the default props as the class holds
\* them when it is called: the default props, overridden by
\* options.svgProps, overridden by the attributes found in the metadata;
\* the object stands for the list of key="value" strings built from it
GeneratePropsFrom(defaults, svg, o) ==
  LET mergedProps == Spread(defaults, SvgPropsOf(o))
      fromMetadata ==
        [k \in DOMAIN svg.metadata \cap MetadataProps |-> svg.metadata[k]]
  IN  Spread(mergedProps, fromMetadata)

\* ReactGenerator.generateProps
GenerateProps(svg, o) == GeneratePropsFrom(defaultProps, svg, o)

\* ReactGenerator.createComponentTemplate (the svgContent is not modelled)
CreateComponentTemplate(svg, componentName, o) ==
  [componentName |-> componentName,
   props |-> GenerateProps(svg, o),
   typescript |-> TruthyBool(o, "typescript")]

\* ReactGenerator.renderComponent: what the component file declares
RenderComponent(componentName, typescript) ==
  [interfaces |-> IF typescript
                    THEN <<componentName \o <<"P", "r", "o", "p", "s">> >>
                    ELSE <<>>,
   const |-> componentName,
   viewBox |-> "0 0 24 24",
   svgAttributes |-> [width |-> "{size}", height |-> "{size}",
                      fill |-> "{fill}", viewBox |-> "0 0 24 24"],
   spreads |-> <<"props">>,
   exportDefault |-> componentName]

\* the content that generateComponentFile writes for an icon
ComponentContent(o, svg) ==
  LET template == CreateComponentTemplate(svg,
                    GetComponentName(svg.metadata.name), o)
  IN  RenderComponent(template.componentName, template.typescript)

\* SVGGenerator.generateSVGFile: the path of an icon's SVG file
SVGFilePath(o, svg) ==
  IF Has(o, "fileNameFormatter")
    THEN OutPath(o, FileNameFormatter(svg.metadata.name), "")
    ELSE OutPath(o, svg.metadata.name, ".svg")

\* generateIndexFile of ReactGenerator and of SVGGenerator: index.ts / index.js
IndexPath(o) ==
  OutPath(o, <<"i", "n", "d", "e", "x">>,
          IF TruthyBool(o, "typescript") THEN ".ts" ELSE ".js")

\* ReactGenerator.generateIndexFile: the content of the index file, one
\* re-export line `export { default as Name } from './Name'` per svg of the
\* list and, with typescript, one member of IconComponents per svg
ReactIndexContent(o, svgs) ==
  LET names == [i \in 1..Len(svgs) |-> GetComponentName(svgs[i].metadata.name)]
  IN  [exports |-> [i \in 1..Len(svgs) |->
                      [name |-> names[i], from |-> names[i]]],
       types |-> IF TruthyBool(o, "typescript") THEN names ELSE <<>>]

\* JSONGenerator.generateJSONFile: icons.json
JSONFilePath(o) ==
  OutPath(o, IF Has(o, "fileNameFormatter")
               THEN FileNameFormatter(<<"i", "c", "o", "n", "s">>)
               ELSE <<"i", "c", "o", "n", "s">>,
          ".json")

\* JSONGenerator.generateIndividualJSONFiles: <name>.json
IndividualJSONPath(o, svg) ==
  OutPath(o, IF Has(o, "fileNameFormatter")
               THEN FileNameFormatter(svg.metadata.name)
               ELSE svg.metadata.name,
          ".json")

\* the keys of an icon's entry that createJSONOutput copies from the metadata
JSONEntryKeys ==
  {"name", "originalName", "path", "size", "width", "height", "viewBox",
   "fill", "stroke", "strokeWidth", "className"}

\* createJSONOutput's key of an icon
JSONKey(o, svg) ==
  IF Has(o, "fileNameFormatter")
    THEN FileNameFormatter(svg.metadata.name)
    ELSE svg.metadata.name

\* createJSONOutput's entry of an icon as JSON.stringify writes it: a key
\* whose value is undefined is left out, and
\* ...(options.verbose && { content: svg.content }) adds the content
JSONEntry(o, svg) ==
  Spread([k \in DOMAIN svg.metadata \cap JSONEntryKeys |-> svg.metadata[k]],
         IF TruthyBool(o, "verbose")
           THEN [content |-> svg.content] ELSE EmptyObj)

\* JSONGenerator.createJSONOutput: icons[key] is assigned icon by icon, so
\* the last icon of a key is the one that stays
CreateJSONOutput(svgs, o) ==
  LET keys == {JSONKey(o, svgs[i]) : i \in 1..Len(svgs)}
      last(k) == CHOOSE i \in 1..Len(svgs) :
                   /\ JSONKey(o, svgs[i]) = k
                   /\ \A j \in 1..Len(svgs) : JSONKey(o, svgs[j]) = k => j <= i
  IN  [icons |-> [k \in keys |-> JSONEntry(o, svgs[last(k)])],
       metadata |-> [totalIcons |-> Len(svgs),
                     format |-> o.format,
                     optimized |-> TruthyBool(o, "optimize")]]

\* a mutant of GeneratorFor: the svg format is handed to the JSON generator
GeneratorFor_SvgToJSON(format) ==
  CASE format = "react" -> "ReactGenerator"
    [] format = "svg" -> "JSONGenerator"
    [] format = "json" -> "JSONGenerator"
    [] OTHER -> "none"

\* the switch of IconifyLoader.generateOutput: the generator a format
\* selects; the default branch throws
GeneratorFor(format) ==
  CASE format = "react" -> "ReactGenerator"
    [] format = "svg" -> "SVGGenerator"
    [] format = "json" -> "JSONGenerator"
    [] OTHER -> "none"

\* the per-icon path of generator g
IconPath(g, o, svg) ==
  IF g = "ReactGenerator" THEN ComponentPath(o, svg) ELSE SVGFilePath(o, svg)

-----------------------------------------------------------------------------
(* GenerationResult *)

\* the result each generator starts from
NewResult == [success |-> TRUE, files |-> <<>>, errors |-> <<>>,
              warnings |-> <<>>]

\* result.success = result.errors.length === 0
ComputeSuccess(errors) == Len(errors) = 0

\* a mutant of OuterCatch: the error is not pushed
OuterCatch_NoPush(r, err) == [r EXCEPT !.success = FALSE]

\* the generators' outer catch: success = false and one error pushed, whose
\* message quotes that of the error caught
OuterCatch(r, err) ==
  [r EXCEPT !.success = FALSE,
            !.errors = Append(r.errors, [kind |-> "generation", icon |-> 0,
                                         cause |-> Kind(err)])]

\* a mutant of EnsureOutputDirectory: a failed mkdir is swallowed
EnsureOutputDirectory_Swallow(ok) == NoError

\* ensureOutputDirectory of each generator: the error it throws, or NoError
EnsureOutputDirectory(ok) ==
  IF ok THEN NoError ELSE Wrap("FileSystemError", <<"Error">>)

\* the end of a generator's try block: success is computed and the result
\* returned
Returned(r) == [r EXCEPT !.success = ComputeSuccess(r.errors)]

IconWrites == SelectSeq(writes, LAMBDA w : w.target = "icon")

\* the index of the icon that the per-icon loop handles next
cur == Len(IconWrites) + 1

-----------------------------------------------------------------------------
(* The inputs *)

\* the union of one object from each set of S1 x S2
Objects(S1, S2) == {Spread(a, b) : a \in S1, b \in S2}

PluginEntries == {[name |-> "cleanupIds"], [name |-> "preset-default"]}

\* the option sets given to SVGOptimizer.optimizeSVG directly
SvgoUserOptions ==
  Objects(OptField("removeViewBox", BOOLEAN),
  Objects(OptField("removeDimensions", BOOLEAN),
  Objects(OptField("removeTitle", BOOLEAN),
          OptField("plugins", SeqUpTo(PluginEntries, MaxPlugins)))))

PrecisionValues == {-1, 0, 10, 11}

\* the optimizer options of a loader configuration that sets precisions
PrecisionOptions ==
  Objects(OptField("floatPrecision", PrecisionValues),
          OptField("transformPrecision", PrecisionValues))

\* the loader configurations: every combination of the required fields and
\* of the switches the pipeline branches on, and, for the numeric optimizer
\* options, every combination of precisions on a few base configurations
LoaderOptions ==
  Objects(OptField("inputDir", {"", "icons"}),
  Objects(OptField("format", {"", "svg", "react", "json", "png"}),
  Objects(OptField("optimize", BOOLEAN),
  Objects(OptField("generateIndex", BOOLEAN),
  Objects(OptField("outputDir", {"out"}),
          OptField("svgoOptions",
                   {[removeViewBox |-> TRUE,
                     plugins |-> <<[name |-> "cleanupIds"]>>]}))))))
  \cup
  Objects(OptField("inputDir", {"icons"}),
  Objects(OptField("format", {"svg", "png"}),
  Objects({[optimize |-> TRUE]},
          {[svgoOptions |-> so] : so \in PrecisionOptions})))

\* the configurations that set the naming and output switches
NamingOptions ==
  Objects({[inputDir |-> "icons"]},
  Objects({[format |-> f] : f \in {"svg", "react", "json"}},
  Objects(OptField("typescript", {TRUE}),
  Objects(OptField("fileNameFormatter", {"iconLower"}),
  Objects(OptField("verbose", {TRUE}),
          OptField("generateIndex", {TRUE}))))))

\* the svgProps of a configuration: a prop that the generated component does
\* not set itself, and props that it does
SvgPropsValues ==
  {[className |-> "icon"], [fill |-> "red", role |-> "img"]}

\* the React configurations with svgProps
PropsOptions ==
  Objects({[inputDir |-> "icons", format |-> "react"]},
  Objects({[svgProps |-> p] : p \in SvgPropsValues},
          OptField("typescript", {TRUE})))

\* the ignore patterns: the name of a subdirectory, the same closed by "$",
\* the name of an icon, and the name of the input directory itself
IgnorePatternLists ==
  {<<[seg |-> <<"s", "u", "b">>, atEnd |-> FALSE]>>,
   <<[seg |-> <<"s", "u", "b">>, atEnd |-> TRUE]>>,
   <<[seg |-> <<"a", "r", "r", "o", "w">>, atEnd |-> FALSE]>>,
   <<[seg |-> <<"i", "c", "o", "n", "s">>, atEnd |-> FALSE]>>}

\* the configurations that set the walker's switches
WalkOptions ==
  Objects({[inputDir |-> "icons"]},
  Objects({[format |-> f] : f \in {"svg", "json"}},
  Objects(OptField("includeSubdirs", BOOLEAN),
          OptField("ignorePatterns", IgnorePatternLists))))

IconNames ==
  << <<"a", "r", "r", "o", "w">>,
     <<"h", "o", "m", "e", "-", "a", "l", "t">>,
     <<"U", "s", "e", "r">>,
     <<"x", "2">> >>

SubdirNames ==
  << <<"s", "u", "b">>, <<"l", "i", "b">>, <<"e", "t", "c">>,
     <<"v", "a", "r">> >>

\* <svg viewBox="0 0 24 24" width="16" height="16">d</svg>
ArrowSvg ==
  <<"<svg", "viewBox=", "0 0 24 24", "width=", "16", "height=", "16", ">",
    "d", "</svg>">>

\* <svg viewBox="0 0 32 32">d</svg>
LargeSvg == <<"<svg", "viewBox=", "0 0 32 32", ">", "d", "</svg>">>

\* the contents of the .svg files: well-formed, self-closed with trailing
\* white space, without a closing tag, and empty
SvgContents ==
  {ArrowSvg, <<"<svg", "stroke-width=", "2", "/>", " ">>,
   <<"<svg", ">", "d">>, <<>>}

\* a plain file of a listing
FileEntry(name, ext, content) ==
  [name |-> name, ext |-> ext, content |-> content, kind |-> "file",
   children |-> <<>>]

EntryKinds ==
  {[ext |-> ".svg", content |-> c] : c \in SvgContents}
  \cup {[ext |-> ".txt", content |-> <<"d">>]}

\* the input directories of plain files: up to MaxFiles entries, the i-th
\* named IconNames[i]
Trees ==
  {[i \in 1..Len(ks) |-> FileEntry(IconNames[i], ks[i].ext, ks[i].content)]
     : ks \in SeqUpTo(EntryKinds, MaxFiles)}

\* the input directories of well-formed icons only
IconTrees ==
  {[i \in 1..n |-> FileEntry(IconNames[i], ".svg", ArrowSvg)]
     : n \in 1..MaxFiles}

\* the listings of a subdirectory: its j-th file is named IconNames[j]
ChildListings ==
  {<<>>,
   <<FileEntry(IconNames[1], ".svg", LargeSvg)>>,
   <<FileEntry(IconNames[1], ".txt", <<"d">>),
     FileEntry(IconNames[2], ".svg", LargeSvg)>>}

\* the entries of the input directories with subdirectories: an .svg file,
\* another file, an entry that is neither a file nor a directory, and a
\* subdirectory
WalkEntryKinds ==
  {[kind |-> "file", ext |-> ".svg", content |-> ArrowSvg,
    children |-> <<>>],
   [kind |-> "file", ext |-> ".txt", content |-> <<"d">>,
    children |-> <<>>],
   [kind |-> "other", ext |-> ".svg", content |-> <<>>, children |-> <<>>]}
  \cup {[kind |-> "dir", ext |-> "", content |-> <<>>, children |-> c]
          : c \in ChildListings}

\* the input directories with subdirectories: the i-th entry is named
\* IconNames[i], or SubdirNames[i] when it is a directory
WalkTrees ==
  {[i \in 1..Len(ks) |->
      [name |-> IF ks[i].kind = "dir" THEN SubdirNames[i] ELSE IconNames[i],
       ext |-> ks[i].ext, content |-> ks[i].content, kind |-> ks[i].kind,
       children |-> ks[i].children]]
     : ks \in SeqUpTo(WalkEntryKinds, MaxFiles)}

\* the arguments that readSVGs passes to FileReader.readSVGFiles, an
\* undefined one replaced by the parameter's default
IncludeSubdirsArg(o) ==
  IF Has(o, "includeSubdirs") THEN o.includeSubdirs ELSE TRUE

IgnorePatternsArg(o) ==
  IF Has(o, "ignorePatterns") THEN o.ignorePatterns ELSE <<>>

InputDirArg(o) == IF Has(o, "inputDir") THEN o.inputDir ELSE ""

\* the operations of the walk that this run's readSVGs starts
RunWalkOps(o, entries) ==
  WalkOps(InputDirArg(o), IncludeSubdirsArg(o), IgnorePatternsArg(o), entries)

-----------------------------------------------------------------------------
(* The run of IconifyLoader.load(options) *)

\* IconifyLoader.getDefaultOptions: a new object literal at every call
GetDefaultOptions ==
  [optimize |-> TRUE, generateIndex |-> TRUE, typescript |-> TRUE,
   includeSubdirs |-> TRUE,
   ignorePatterns |-> <<"node_modules", ".git", "dist", "build">>,
   verbose |-> FALSE]

\* the module-level default objects when the module is loaded
InitialDefaults == [svgo |-> defaultOptions, react |-> defaultProps]

\* no call of a sequence has been made
NoCall == [call |-> "none"]

\* the faults of the input reads that a run can meet: a configuration
\* that the constructor rejects reads nothing
FaultsOf(o, entries) ==
  IF ValidateOptions(o) = NoError
    THEN -1..(Len(RunWalkOps(o, entries)) - 1)
    ELSE {0}

InitLoad ==
  /\ \/ options \in LoaderOptions /\ tree \in Trees
     \/ options \in NamingOptions /\ tree \in IconTrees
     \/ options \in WalkOptions /\ tree \in WalkTrees
     \/ options \in PropsOptions /\ tree \in IconTrees
  /\ fsFault \in FaultsOf(options, tree)
  /\ pc = "new"
  /\ files = <<>>
  /\ processed = <<>>
  /\ engineLog = <<>>
  /\ engineCalls = <<>>
  /\ result = NewResult
  /\ indFiles = <<>>
  /\ writes = <<>>
  /\ mkdirs = 0
  /\ disk = {}
  /\ thrown = NoError
  /\ failedAt = ""
  /\ reads = 0
  /\ userOpts = EmptyObj
  /\ optPc = "idle"
  /\ invoked = <<>>
  /\ inflight = <<>>
  /\ walked = 0
  /\ dirs = {}
  /\ moduleDefaults = InitialDefaults
  /\ calls = 0
  /\ effective = NoCall

\* the operation of the walk that ends readSVGFiles: the one that fails, or
\* the last one
FinalWalkOp ==
  IF fsFault = -1
    THEN 1
    ELSE IF fsFault >= 1 THEN fsFault + 1
                         ELSE Len(RunWalkOps(options, tree))

\* the operation that the code at this position awaits next: a listing or a
\* read of the walk (getFileInfo's stat and readFile taken as one read),
\* the optimizer call of the file that processSVGs has reached, the mkdir of
\* the generator, a write; "none" when the next step awaits nothing
AwaitedOp ==
  CASE pc = "collect" -> RunWalkOps(options, tree)[walked + 1].op
    [] pc = "transform" /\ Len(processed) < Len(files) ->
         IF ValidateSVGContent(files[Len(processed) + 1].content) = NoError
            /\ TruthyBool(options, "optimize")
           THEN "optimize" ELSE "none"
    [] pc = "transform" /\ Len(processed) = Len(files) ->
         IF Has(options, "format") /\ GeneratorFor(options.format) # "none"
            /\ TruthyStr(options, "outputDir")
           THEN "mkdir" ELSE "none"
    [] pc \in {"icons", "jsonMain", "jsonIcons"} -> "write"
    [] OTHER -> "none"

\* a mutant of AwaitSettled: the call is not awaited
AwaitSettled_FireAndForget(pending) == TRUE

\* `await`: the statements after an awaited call run when it has settled
AwaitSettled(pending) == pending = <<>>

\* the code reaches its next awaited call and issues it
Issue ==
  /\ AwaitedOp # "none"
  /\ AwaitSettled(inflight)
  /\ inflight' = Append(inflight, AwaitedOp)
  /\ UNCHANGED <<options, tree, fsFault, pc, files, processed, engineLog,
                 engineCalls, result, indFiles, writes, mkdirs, disk, thrown,
                 failedAt, reads, userOpts, optPc, invoked, walked, dirs>>
  /\ UNCHANGED sessionVars

\* the awaited operation settles, and the step that waited for it runs
Await ==
  IF AwaitedOp = "none"
    THEN UNCHANGED inflight
    ELSE /\ inflight # <<>>
         /\ Head(inflight) = AwaitedOp
         /\ inflight' = Tail(inflight)

\* new IconifyLoader(options): validateOptions, then the options are kept
Construct ==
  /\ pc = "new"
  /\ LET err == ValidateOptions(options)
     IN  IF err # NoError
           THEN /\ thrown' = err
                /\ failedAt' = "construct"
                /\ pc' = "failed"
           ELSE /\ pc' = "collect"
                /\ UNCHANGED <<thrown, failedAt>>
  /\ UNCHANGED <<options, tree, fsFault, files, processed, engineLog,
                 engineCalls, result, indFiles, writes, mkdirs, disk, reads,
                 userOpts, optPc, invoked, inflight, walked, dirs>>
  /\ UNCHANGED sessionVars

\* process, step 1, inside readSVGFiles: an operation of the walk other than
\* its final one settles
WalkStep ==
  /\ pc = "collect"
  /\ walked + 1 < FinalWalkOp
  /\ Await
  /\ walked' = walked + 1
  /\ UNCHANGED <<options, tree, fsFault, pc, files, processed, engineLog,
                 engineCalls, result, indFiles, writes, mkdirs, disk, thrown,
                 failedAt, reads, userOpts, optPc, invoked, dirs>>
  /\ UNCHANGED sessionVars

\* process, step 1: the final operation of the walk settles, readSVGFiles
\* returns or throws, and readSVGs checks what it got
ReadSVGs ==
  /\ pc = "collect"
  /\ walked + 1 = FinalWalkOp
  /\ Await
  /\ walked' = walked + 1
  /\ LET r == ReadSVGFiles(options.inputDir, IncludeSubdirsArg(options),
                           IgnorePatternsArg(options), tree, fsFault)
         err == ReadSVGsThrows(r.files, r.err)
     IN  /\ reads' = r.reads
         /\ IF err # NoError
              THEN /\ thrown' = ProcessCatch(err)
                   /\ failedAt' = "collect"
                   /\ pc' = "failed"
                   /\ UNCHANGED files
              ELSE /\ files' = r.files
                   /\ pc' = "transform"
                   /\ UNCHANGED <<thrown, failedAt>>
  /\ UNCHANGED <<options, tree, fsFault, processed, engineLog, engineCalls,
                 result, indFiles, writes, mkdirs, disk, userOpts, optPc,
                 invoked, dirs>>
  /\ UNCHANGED sessionVars

\* a mutant of ProcessSVGsReturns: the loop does not end when the last file
\* has been taken, so processSVGs never returns
ProcessSVGsReturns_Never(done, all) == FALSE

\* a mutant of ProcessSVGsReturns: the list is handed on after the first file
ProcessSVGsReturns_AfterFirst(done, all) == Len(done) >= 1

\* processSVGs returns the processed list, and process goes on to
\* generateOutput, when its for...of loop has taken every collected file
ProcessSVGsReturns(done, all) == Len(done) = Len(all)

\* process, step 2: one iteration of processSVGs' loop
ProcessSVG ==
  /\ pc = "transform"
  /\ Len(processed) < Len(files)
  /\ Await
  /\ LET file == files[Len(processed) + 1]
         err == ValidateSVGContent(file.content)
     IN  IF err # NoError
           THEN /\ thrown' = ProcessCatch(err)
                /\ failedAt' = "transform"
                /\ pc' = "failed"
                /\ UNCHANGED <<processed, engineLog, engineCalls>>
           ELSE /\ IF TruthyBool(options, "optimize")
                     THEN \E engineOk \in BOOLEAN :
                            /\ engineCalls' =
                                 Append(engineCalls,
                                        SvgoConfig(SvgoOptionsOf(options)))
                            /\ engineLog' =
                                 Append(engineLog,
                                        IF engineOk THEN "ok" ELSE "error")
                            /\ processed' =
                                 Append(processed,
                                        ProcessedItem(file, TRUE, engineOk))
                     ELSE /\ engineLog' = Append(engineLog, "skipped")
                          /\ processed' =
                               Append(processed,
                                      ProcessedItem(file, FALSE, FALSE))
                          /\ UNCHANGED engineCalls
                /\ UNCHANGED <<thrown, failedAt, pc>>
  /\ UNCHANGED <<options, tree, fsFault, files, result, indFiles, writes,
                 mkdirs, disk, reads, userOpts, optPc, invoked, walked, dirs>>
  /\ UNCHANGED sessionVars

\* React and SVG generators: with the per-icon loop at index `next`, either
\* the loop or the index file is still to come, or the result is returned
AfterIcon(r, next) ==
  IF next > Len(processed) /\ ~TruthyBool(options, "generateIndex")
    THEN [res |-> Returned(r), pc |-> "done"]
    ELSE [res |-> r, pc |-> "icons"]

\* JSONGenerator.generateJSON after the main file: the individual files are
\* generated only when generateIndex is set
AfterJSONFile(r) ==
  IF ~TruthyBool(options, "generateIndex") \/ Len(processed) = 0
    THEN [res |-> Returned(r), pc |-> "done"]
    ELSE [res |-> r, pc |-> "jsonIcons"]

\* process, step 3: generateOutput hands the processed list to the generator
\* that options.format selects, which creates the output directory when one
\* is given
GenerateOutput ==
  /\ pc = "transform"
  /\ ProcessSVGsReturns(processed, files)
  /\ Await
  /\ LET g == IF Has(options, "format")
                THEN GeneratorFor(options.format) ELSE "none"
     IN  IF g = "none"
           THEN /\ thrown' = ProcessCatch(<<"ValidationError">>)
                /\ failedAt' = "render"
                /\ pc' = "failed"
                /\ UNCHANGED <<result, mkdirs, invoked, dirs>>
           ELSE /\ UNCHANGED <<thrown, failedAt>>
                /\ invoked' = Append(invoked, [generator |-> g,
                                               svgs |-> processed])
                /\ LET go == IF g = "JSONGenerator"
                               THEN [res |-> NewResult, pc |-> "jsonMain"]
                               ELSE AfterIcon(NewResult, 1)
                   IN  IF TruthyStr(options, "outputDir")
                         THEN \E ok \in BOOLEAN :
                                /\ mkdirs' = mkdirs + 1
                                /\ dirs' = IF ok
                                             THEN dirs \cup {options.outputDir}
                                             ELSE dirs
                                /\ LET err == EnsureOutputDirectory(ok)
                                   IN  IF err = NoError
                                         THEN /\ result' = go.res
                                              /\ pc' = go.pc
                                         ELSE /\ result' =
                                                   OuterCatch(NewResult, err)
                                              /\ pc' = "done"
                         ELSE /\ result' = go.res
                              /\ pc' = go.pc
                              /\ UNCHANGED <<mkdirs, dirs>>
  /\ UNCHANGED <<options, tree, fsFault, files, processed, engineLog,
                 engineCalls, indFiles, writes, disk, reads, userOpts, optPc,
                 walked>>
  /\ UNCHANGED sessionVars

\* a mutant of PushFile: the path is recorded twice
PushFile_Twice(r, path) == [r EXCEPT !.files = @ \o <<path, path>>]

\* result.files.push(path)
PushFile(r, path) == [r EXCEPT !.files = Append(@, path)]

\* a mutant of PushError: the files recorded so far are dropped
PushError_DropsFiles(r, kind, i) ==
  [r EXCEPT !.errors = Append(@, [kind |-> kind, icon |-> i]),
            !.files = <<>>]

PushError(r, kind, i) ==
  [r EXCEPT !.errors = Append(@, [kind |-> kind, icon |-> i])]

\* the generator that is running
Generator == invoked[Len(invoked)].generator

\* one iteration of the per-icon loop of generateComponents / generateSVGs
WriteIcon ==
  /\ pc = "icons"
  /\ cur <= Len(processed)
  /\ Await
  /\ \E ok \in BOOLEAN :
       LET path == IconPath(Generator, options, processed[cur])
           r == IF ok THEN PushFile(result, path)
                      ELSE PushError(result, "icon", cur)
           go == AfterIcon(r, cur + 1)
           w == [target |-> "icon", icon |-> cur, path |-> path, ok |-> ok,
                 by |-> Generator]
       IN  /\ writes' =
                Append(writes,
                       IF Generator = "ReactGenerator"
                         THEN Spread(w, [content |->
                                ComponentContent(options, processed[cur])])
                         ELSE w)
           /\ disk' = IF ok THEN disk \cup {path} ELSE disk
           /\ result' = go.res
           /\ pc' = go.pc
  /\ UNCHANGED <<options, tree, fsFault, files, processed, engineLog,
                 engineCalls, indFiles, mkdirs, thrown, failedAt, reads,
                 userOpts, optPc, invoked, walked, dirs>>
  /\ UNCHANGED sessionVars

\* generateIndexFile of generateComponents / generateSVGs, then the return
WriteIndex ==
  /\ pc = "icons"
  /\ cur > Len(processed)
  /\ TruthyBool(options, "generateIndex")
  /\ Await
  /\ \E ok \in BOOLEAN :
       LET path == IndexPath(options)
           w == [target |-> "index", icon |-> 0, path |-> path, ok |-> ok,
                 by |-> Generator]
       IN  /\ writes' =
                Append(writes,
                       IF Generator = "ReactGenerator"
                         THEN Spread(w, [content |->
                                ReactIndexContent(options, processed)])
                         ELSE w)
           /\ disk' = IF ok THEN disk \cup {path} ELSE disk
           /\ result' = Returned(IF ok THEN PushFile(result, path)
                                       ELSE PushError(result, "index", 0))
           /\ pc' = "done"
  /\ UNCHANGED <<options, tree, fsFault, files, processed, engineLog,
                 engineCalls, indFiles, mkdirs, thrown, failedAt, reads,
                 userOpts, optPc, invoked, walked, dirs>>
  /\ UNCHANGED sessionVars

\* JSONGenerator.generateJSONFile: the aggregate file
WriteJSONFile ==
  /\ pc = "jsonMain"
  /\ Await
  /\ \E ok \in BOOLEAN :
       LET path == JSONFilePath(options)
           r == IF ok THEN PushFile(result, path)
                      ELSE PushError(result, "main", 0)
           go == AfterJSONFile(r)
       IN  /\ writes' = Append(writes, [target |-> "main", icon |-> 0,
                                        path |-> path, ok |-> ok,
                                        by |-> Generator,
                                        content |->
                                          CreateJSONOutput(processed,
                                                           options)])
           /\ disk' = IF ok THEN disk \cup {path} ELSE disk
           /\ result' = go.res
           /\ pc' = go.pc
  /\ UNCHANGED <<options, tree, fsFault, files, processed, engineLog,
                 engineCalls, indFiles, mkdirs, thrown, failedAt, reads,
                 userOpts, optPc, invoked, walked, dirs>>
  /\ UNCHANGED sessionVars

\* one iteration of generateIndividualJSONFiles' loop.  A failed write is
\* re-thrown as a FileSystemError, which ends the loop and discards the
\* local list; generateJSON's catch pushes one error.  After the last icon
\* the local list is pushed onto result.files.
WriteIndividualJSON ==
  /\ pc = "jsonIcons"
  /\ cur <= Len(processed)
  /\ Await
  /\ \E ok \in BOOLEAN :
       LET path == IndividualJSONPath(options, processed[cur])
       IN  /\ writes' = Append(writes, [target |-> "icon", icon |-> cur,
                                        path |-> path, ok |-> ok,
                                        by |-> Generator])
           /\ disk' = IF ok THEN disk \cup {path} ELSE disk
           /\ IF ~ok
                THEN /\ result' = Returned(PushError(result, "individual", 0))
                     /\ indFiles' = <<>>
                     /\ pc' = "done"
                ELSE IF cur = Len(processed)
                  THEN /\ result' =
                            Returned([result EXCEPT
                                        !.files = @ \o Append(indFiles, path)])
                       /\ indFiles' = Append(indFiles, path)
                       /\ pc' = "done"
                  ELSE /\ indFiles' = Append(indFiles, path)
                       /\ UNCHANGED <<result, pc>>
  /\ UNCHANGED <<options, tree, fsFault, files, processed, engineLog,
                 engineCalls, mkdirs, thrown, failedAt, reads, userOpts,
                 optPc, invoked, walked, dirs>>
  /\ UNCHANGED sessionVars

-----------------------------------------------------------------------------
(* A direct call SVGOptimizer.optimizeSVG(content, userOpts) *)

InitOptimize ==
  /\ userOpts \in SvgoUserOptions
  /\ optPc = "call"
  /\ options = EmptyObj
  /\ tree = <<>>
  /\ fsFault = 0
  /\ pc = "idle"
  /\ files = <<>>
  /\ processed = <<>>
  /\ engineLog = <<>>
  /\ engineCalls = <<>>
  /\ result = NewResult
  /\ indFiles = <<>>
  /\ writes = <<>>
  /\ mkdirs = 0
  /\ disk = {}
  /\ thrown = NoError
  /\ failedAt = ""
  /\ reads = 0
  /\ invoked = <<>>
  /\ inflight = <<>>
  /\ walked = 0
  /\ dirs = {}
  /\ moduleDefaults = InitialDefaults
  /\ calls = 0
  /\ effective = NoCall

\* optimizeSVG: the options are merged, the configuration is built and
\* handed to the engine, whose error is thrown as an SVGProcessingError
OptimizeSVG ==
  /\ optPc = "call"
  /\ engineCalls' = Append(engineCalls, SvgoConfig(userOpts))
  /\ \E engineOk \in BOOLEAN :
       IF engineOk
         THEN optPc' = "returned" /\ UNCHANGED thrown
         ELSE optPc' = "thrown" /\ thrown' = <<"SVGProcessingError">>
  /\ UNCHANGED <<options, tree, fsFault, pc, files, processed, engineLog,
                 result, indFiles, writes, mkdirs, disk, failedAt, reads,
                 userOpts, invoked, inflight, walked, dirs>>
  /\ UNCHANGED sessionVars

-----------------------------------------------------------------------------

Init == InitLoad \/ InitOptimize

Next ==
  \/ Issue
  \/ Construct
  \/ WalkStep
  \/ ReadSVGs
  \/ ProcessSVG
  \/ GenerateOutput
  \/ WriteIcon
  \/ WriteIndex
  \/ WriteJSONFile
  \/ WriteIndividualJSON
  \/ OptimizeSVG

Spec == Init /\ [][Next]_vars

-----------------------------------------------------------------------------
(* Sequences of calls on the same loaded module.  Each call merges the      *)
(* options given to it with the module-level defaults as they are at that   *)
(* time, so a default changed by one call would show in the next.           *)

MaxCalls == 3

\* the configurations of a load whose files reach the optimizer
OptimizingOptions ==
  {o \in LoaderOptions :
     ValidateOptions(o) = NoError /\ TruthyBool(o, "optimize")}

\* the configurations of a generateComponents call
ComponentOptions == PropsOptions \cup {[inputDir |-> "icons", format |-> "react"]}

\* the icons of a generateComponents call
ComponentSvgs ==
  {[metadata |-> ExtractSVGAttributes(c)] : c \in {ArrowSvg, <<"<svg", "/>">>}}

InitCalls ==
  /\ moduleDefaults = InitialDefaults
  /\ calls = 0
  /\ effective = NoCall
  /\ options = EmptyObj
  /\ tree = <<>>
  /\ fsFault = 0
  /\ pc = "idle"
  /\ files = <<>>
  /\ processed = <<>>
  /\ engineLog = <<>>
  /\ engineCalls = <<>>
  /\ result = NewResult
  /\ indFiles = <<>>
  /\ writes = <<>>
  /\ mkdirs = 0
  /\ disk = {}
  /\ thrown = NoError
  /\ failedAt = ""
  /\ reads = 0
  /\ userOpts = EmptyObj
  /\ optPc = "idle"
  /\ invoked = <<>>
  /\ inflight = <<>>
  /\ walked = 0
  /\ dirs = {}

\* SVGOptimizer.optimizeSVG(content, user): mergeOptions(user)
CallOptimizeSVG ==
  /\ calls < MaxCalls
  /\ \E user \in SvgoUserOptions :
       /\ effective' = [call |-> "optimizeSVG", given |-> user,
                        inEffect |-> SvgoMergeFrom(moduleDefaults.svgo, user)]
       /\ moduleDefaults' =
            [moduleDefaults EXCEPT !.svgo = DefaultsAfterSpread(@, user)]
  /\ calls' = calls + 1
  /\ UNCHANGED runVars

\* IconifyLoader.load(o) with optimize set: processSVGs calls optimizeSVG
\* with this.options.svgoOptions for each file
CallLoad ==
  /\ calls < MaxCalls
  /\ \E o \in OptimizingOptions :
       /\ effective' = [call |-> "load", given |-> SvgoOptionsOf(o),
                        inEffect |-> SvgoMergeFrom(moduleDefaults.svgo,
                                                   SvgoOptionsOf(o))]
       /\ moduleDefaults' =
            [moduleDefaults EXCEPT
               !.svgo = DefaultsAfterSpread(@, SvgoOptionsOf(o))]
  /\ calls' = calls + 1
  /\ UNCHANGED runVars

\* ReactGenerator.generateComponents(svgs, o): generateProps for an icon
CallGenerateComponents ==
  /\ calls < MaxCalls
  /\ \E o \in ComponentOptions, svg \in ComponentSvgs :
       /\ effective' = [call |-> "generateComponents", given |-> o,
                        svg |-> svg,
                        inEffect |-> GeneratePropsFrom(moduleDefaults.react,
                                                       svg, o)]
       /\ moduleDefaults' =
            [moduleDefaults EXCEPT
               !.react = DefaultsAfterSpread(@, SvgPropsOf(o))]
  /\ calls' = calls + 1
  /\ UNCHANGED runVars

\* IconifyLoader.getDefaultOptions(): the caller receives a new object and
\* may assign to its keys
CallGetDefaultOptions ==
  /\ calls < MaxCalls
  /\ \E assigned \in {EmptyObj, [verbose |-> TRUE], [optimize |-> FALSE]} :
       effective' = [call |-> "getDefaultOptions", given |-> assigned,
                     inEffect |-> GetDefaultOptions,
                     held |-> Spread(GetDefaultOptions, assigned)]
  /\ calls' = calls + 1
  /\ UNCHANGED moduleDefaults
  /\ UNCHANGED runVars

NextCalls ==
  \/ CallOptimizeSVG
  \/ CallLoad
  \/ CallGenerateComponents
  \/ CallGetDefaultOptions

SpecCalls == InitCalls /\ [][NextCalls]_vars

-----------------------------------------------------------------------------
(* Properties *)

\* a run of load, as opposed to a direct optimizeSVG call
IsLoad == pc # "idle"

Rendering == pc \in {"icons", "jsonMain", "jsonIcons", "done"}

NoOutputIO == writes = <<>> /\ mkdirs = 0 /\ disk = {}

\* inputDir or format is missing, or format is none of the three
InvalidConfig(o) ==
  \/ ~Has(o, "inputDir")
  \/ ~Has(o, "format")
  \/ o.format \notin {"svg", "react", "json"}

\* C1: a configuration that misses inputDir or format, or whose format is
\* none of svg, react, json, fails in the constructor with a ValidationError,
\* and at that moment nothing was read, written or created.
C1_InvalidConfigFailsBeforeIO ==
  (IsLoad /\ pc # "new" /\ InvalidConfig(options)) =>
    /\ pc = "failed"
    /\ failedAt = "construct"
    /\ thrown = <<"ValidationError">>
    /\ reads = 0
    /\ NoOutputIO

C1_Witness ==
  /\ pc = "failed"
  /\ Has(options, "inputDir") /\ options.inputDir = "icons"
  /\ Has(options, "format") /\ options.format = "png"
  /\ Len(tree) = MaxFiles
  /\ thrown = <<"ValidationError">>

\* no entry of the input directory is an .svg file
NoSvgIn(entries) == \A i \in 1..Len(entries) : entries[i].ext # ".svg"

\* C2: when the walker finds no .svg file, the error that the caller of
\* load / process receives is of kind ValidationError.
C2_EmptyInputThrowsValidationError ==
  (IsLoad /\ failedAt = "collect" /\ fsFault = 0 /\ NoSvgIn(tree)) =>
    Kind(thrown) = "ValidationError"

\* C3: in every returned GenerationResult, success is true if and only if
\* errors is empty, the outer catch included.
C3_SuccessIffNoErrors ==
  pc = "done" => (result.success <=> Len(result.errors) = 0)

C3_Witness ==
  /\ pc = "done"
  /\ ~result.success
  /\ \E i \in 1..Len(result.errors) : result.errors[i].kind = "generation"

\* C4: a returned result with success = true has no errors and at least one
\* file.
C4_SuccessHasFiles ==
  (pc = "done" /\ result.success) =>
    Len(result.errors) = 0 /\ Len(result.files) >= 1

C4_Witness ==
  /\ pc = "done"
  /\ result.success
  /\ options.format = "react"
  /\ ~TruthyBool(options, "generateIndex")
  /\ Len(result.files) = MaxFiles

\* the renderer writes one output per icon
PerIconOutputs ==
  \/ options.format \in {"react", "svg"}
  \/ options.format = "json" /\ TruthyBool(options, "generateIndex")

DirectoryFailed ==
  \E i \in 1..Len(result.errors) : result.errors[i].kind = "generation"

\* C5: in each renderer, a failed write of one icon's output is recorded in
\* errors and the output of every remaining icon is still attempted.
C5_FailedWriteDoesNotStopBatch ==
  (pc = "done" /\ PerIconOutputs /\ ~DirectoryFailed) =>
    /\ \A i \in 1..Len(processed) :
         \E j \in 1..Len(writes) :
           writes[j].target = "icon" /\ writes[j].icon = i
    /\ \A j \in 1..Len(writes) :
         (writes[j].target = "icon" /\ ~writes[j].ok) =>
           Len(result.errors) >= 1

\* C6: an optimizer failure does not propagate: the file is pushed with its
\* raw content and optimized = false, later files are still processed, and
\* optimized is true exactly when optimization was requested and succeeded.
C6_OptimizerFailureIsSkipped ==
  IsLoad =>
    /\ Len(engineLog) = Len(processed)
    /\ \A i \in 1..Len(processed) :
         /\ processed[i].optimized <=>
              (TruthyBool(options, "optimize") /\ engineLog[i] = "ok")
         /\ ~processed[i].optimized =>
              processed[i].content = files[i].content
    /\ failedAt = "transform" =>
         ValidateSVGContent(files[Len(processed) + 1].content) # NoError
    /\ Rendering => Len(processed) = Len(files)

C6_Witness ==
  /\ Len(processed) = MaxFiles
  /\ engineLog[1] = "error"
  /\ ~processed[1].optimized
  /\ processed[MaxFiles].optimized

\* the content holds no closing tag and does not end with a self-close
Unclosed(content) ==
  ~Includes(content, "</svg>") /\ ~EndsWith(Trim(content), "/>")

\* C7: when a file of the batch is unclosed, the batch aborts with an
\* SVGProcessingError, no output of a later icon (in fact of any icon) is
\* written, and what was written stays on disk.
C7_MalformedFileAbortsBatch ==
  /\ (IsLoad /\ \E i \in 1..Len(files) : Unclosed(files[i].content)) =>
       /\ ~Rendering
       /\ NoOutputIO
       /\ pc = "failed" => Kind(thrown) = "SVGProcessingError"
       /\ \A i \in 1..Len(processed) : ~Unclosed(files[i].content)
  /\ \A j \in 1..Len(writes) : writes[j].ok => writes[j].path \in disk

C7_Witness ==
  /\ pc = "failed"
  /\ failedAt = "transform"
  /\ Len(files) = MaxFiles
  /\ Len(processed) = MaxFiles - 1
  /\ Unclosed(files[MaxFiles].content)
  /\ files[MaxFiles].content # <<>>

\* the options that the optimizer calls of this run were given
CallOptions == IF IsLoad THEN SvgoOptionsOf(options) ELSE userOpts

\* the configuration holds the preset entry with removeViewBox overridden to
\* false, and sets removeViewBox to true nowhere
RemoveViewBoxForcedFalse(cfg) ==
  /\ \E j \in 1..Len(cfg.plugins) :
       /\ cfg.plugins[j].name = "preset-default"
       /\ Has(cfg.plugins[j], "params")
       /\ cfg.plugins[j].params.overrides.removeViewBox = FALSE
  /\ ~TruthyBool(cfg, "removeViewBox")

\* C8: whatever the user's optimizer options, the configuration handed to
\* the optimization engine has removeViewBox forced to false.
C8_RemoveViewBoxForcedFalse ==
  \A i \in 1..Len(engineCalls) : RemoveViewBoxForcedFalse(engineCalls[i])

\* C9: the plugin list handed to the engine is the generated preset entry
\* followed by the user's plugin entries in their order, not deduplicated.
C9_PresetThenUserPlugins ==
  \A i \in 1..Len(engineCalls) :
    engineCalls[i].plugins =
      <<PresetEntry(Spread(defaultOptions, CallOptions))>>
        \o (IF Has(CallOptions, "plugins") THEN CallOptions.plugins ELSE <<>>)

\* inputDir and format are given and the format is one of the three
RequiredGiven(o) ==
  /\ Has(o, "inputDir") /\ o.inputDir # ""
  /\ Has(o, "format") /\ o.format \in {"svg", "react", "json"}

\* a precision of the optimizer options lies outside 0..10
PrecisionOutside(so) ==
  \E p \in {"floatPrecision", "transformPrecision"} :
    Has(so, p) /\ so[p] \notin 0..10

\* C10 as stated: a configuration with a precision outside [0,10] is
\* rejected with an SVGProcessingError at construction.
C10_Original ==
  (IsLoad /\ pc # "new" /\ Has(options, "svgoOptions")
     /\ PrecisionOutside(options.svgoOptions)) =>
    pc = "failed" /\ failedAt = "construct"
      /\ Kind(thrown) = "SVGProcessingError"

\* C10, amended: a configuration that gives inputDir and a valid format and
\* whose optimizer options carry a precision outside [0,10] is rejected
\* with an SVGProcessingError at construction, before any input is read;
\* precisions of 0 through 10 are accepted.
C10_PrecisionCheckedAtConstruction ==
  (IsLoad /\ pc # "new" /\ RequiredGiven(options)
     /\ Has(options, "svgoOptions")) =>
    IF PrecisionOutside(options.svgoOptions)
      THEN /\ pc = "failed"
           /\ failedAt = "construct"
           /\ thrown = <<"SVGProcessingError">>
           /\ reads = 0
           /\ NoOutputIO
      ELSE failedAt # "construct"

C10_Witness ==
  /\ pc = "failed"
  /\ failedAt = "construct"
  /\ RequiredGiven(options)
  /\ Has(options, "svgoOptions")
  /\ Has(options.svgoOptions, "floatPrecision")
  /\ options.svgoOptions.floatPrecision = 10
  /\ Has(options.svgoOptions, "transformPrecision")
  /\ options.svgoOptions.transformPrecision = 11
  /\ thrown = <<"SVGProcessingError">>

\* the generator that each format is to select
RendererOf ==
  [react |-> "ReactGenerator", svg |-> "SVGGenerator",
   json |-> "JSONGenerator"]

\* C11: a run that reaches Render has handed the full processed list to
\* exactly one generator, the one of its format, and every output write is
\* that generator's; a format that is none of the three never reaches
\* Render: the run fails with a ValidationError and invokes no generator.
C11_OneRendererByFormat ==
  IsLoad =>
    /\ Rendering =>
         /\ Has(options, "format") /\ options.format \in DOMAIN RendererOf
         /\ Len(invoked) = 1
         /\ invoked[1].generator = RendererOf[options.format]
         /\ invoked[1].svgs = processed
         /\ \A j \in 1..Len(writes) :
              writes[j].by = RendererOf[options.format]
    /\ ~Rendering => invoked = <<>> /\ writes = <<>>
    /\ (pc # "new"
          /\ ~(Has(options, "format") /\ options.format \in DOMAIN RendererOf))
         => /\ pc = "failed"
            /\ thrown = <<"ValidationError">>
            /\ invoked = <<>>

C11_Witness ==
  /\ pc = "done"
  /\ options.format = "svg"
  /\ Len(invoked) = 1
  /\ invoked[1].generator = "SVGGenerator"
  /\ Len(invoked[1].svgs) = MaxFiles
  /\ Len(writes) = MaxFiles
  /\ \A j \in 1..Len(writes) : writes[j].by = "SVGGenerator"

\* C12: with format svg and a custom file name formatter f, the output file
\* of icon n is named f(n) with ".svg" appended: icon-arrow.svg for the
\* icon arrow and f = icon-<lower-cased name>.
C12_FormatterKeepsSvgExtension ==
  \A j \in 1..Len(writes) :
    (writes[j].by = "SVGGenerator" /\ writes[j].target = "icon"
       /\ Has(options, "fileNameFormatter")) =>
      /\ writes[j].path[2] =
           FileNameFormatter(files[writes[j].icon].name)
      /\ writes[j].path[3] = ".svg"

\* a per-icon write of the React generator with TypeScript output and no
\* custom file name formatter
DefaultTsxWrite(w) ==
  /\ w.by = "ReactGenerator"
  /\ w.target = "icon"
  /\ TruthyBool(options, "typescript")
  /\ ~Has(options, "fileNameFormatter")

\* C13: with format react, TypeScript output and no custom namers, the file
\* of an icon is <Name>.tsx and declares the component <Name>, the interface
\* <Name>Props and the default export <Name>, one and the same
\* default-transformed name: Arrow for arrow, HomeAlt for home-alt.
C13_ReactTypescriptNames ==
  \A j \in 1..Len(writes) :
    DefaultTsxWrite(writes[j]) =>
      LET w == writes[j]
          name == files[w.icon].name
      IN  /\ w.path[3] = ".tsx"
          /\ w.content.const = w.path[2]
          /\ w.content.exportDefault = w.path[2]
          /\ w.content.interfaces =
               <<w.path[2] \o <<"P", "r", "o", "p", "s">> >>
          /\ name = <<"a", "r", "r", "o", "w">> =>
               w.path[2] = <<"A", "r", "r", "o", "w">>
          /\ name = <<"h", "o", "m", "e", "-", "a", "l", "t">> =>
               w.path[2] = <<"H", "o", "m", "e", "A", "l", "t">>

C13_Witness ==
  /\ pc = "done"
  /\ Len(writes) >= MaxFiles
  /\ DefaultTsxWrite(writes[1])
  /\ writes[1].ok
  /\ writes[1].path = <<".", <<"A", "r", "r", "o", "w">>, ".tsx">>
  /\ writes[1].content.interfaces =
       << <<"A", "r", "r", "o", "w", "P", "r", "o", "p", "s">> >>
  /\ writes[1].path \in disk

\* the attributes that the metadata takes from the markup
MarkupAttributes == {"viewBox", "width", "height", "fill", "stroke"}

\* the key of icon i in the aggregate file
KeyOfIcon(i) ==
  IF Has(options, "fileNameFormatter")
    THEN FileNameFormatter(files[i].name)
    ELSE files[i].name

\* entry holds the attributes of the markup `content`, and those only
HoldsAttributesOf(entry, content) ==
  /\ \A a \in MarkupAttributes :
       /\ Has(entry, a) <=> Has(ExtractSVGAttributes(content), a)
       /\ Has(entry, a) => entry[a] = ExtractSVGAttributes(content)[a]
  /\ content = ArrowSvg =>
       /\ DOMAIN entry \cap MarkupAttributes = {"viewBox", "width", "height"}
       /\ entry.viewBox = "0 0 24 24"
       /\ entry.width = "16"
       /\ entry.height = "16"

\* C14: with format json, the icons map of the aggregate file has, for each
\* icon, an entry keyed by its (formatted) name that holds the attributes
\* extracted from the icon's markup, and the entry has a content key exactly
\* when verbose is set.
C14_JSONEntryPerIcon ==
  \A j \in 1..Len(writes) :
    (writes[j].by = "JSONGenerator" /\ writes[j].target = "main") =>
      \A i \in 1..Len(files) :
        /\ KeyOfIcon(i) \in DOMAIN writes[j].content.icons
        /\ HoldsAttributesOf(writes[j].content.icons[KeyOfIcon(i)],
                             files[i].content)
        /\ Has(writes[j].content.icons[KeyOfIcon(i)], "content")
             <=> TruthyBool(options, "verbose")

\* C15: an option documented with the default true behaves as true when it
\* is omitted: without `optimize` every file goes through the optimizer,
\* without `generateIndex` the React and SVG generators write the index
\* file, without `typescript` the component files are .tsx, and without
\* `includeSubdirs` the walk descends into subdirectories.
C15_OmittedOptionsDefaultToTrue ==
  IsLoad =>
    /\ ~Has(options, "optimize") =>
         \A i \in 1..Len(engineLog) : engineLog[i] # "skipped"
    /\ (~Has(options, "generateIndex") /\ pc = "done" /\ ~DirectoryFailed
          /\ options.format \in {"react", "svg"}) =>
         \E j \in 1..Len(writes) : writes[j].target = "index"
    /\ (~Has(options, "typescript") /\ ~Has(options, "fileNameFormatter")) =>
         \A j \in 1..Len(writes) :
           (writes[j].by = "ReactGenerator" /\ writes[j].target = "icon") =>
             writes[j].path[3] = ".tsx"
    /\ (~Has(options, "includeSubdirs") /\ ~Has(options, "ignorePatterns")
          /\ pc = "transform" /\ fsFault = 0) =>
         \A i \in 1..Len(tree) :
           \A k \in 1..Len(tree[i].children) :
             tree[i].children[k].ext = ".svg" =>
               \E f \in 1..Len(files) :
                 files[f].path =
                   JoinPath(JoinPath(RootPath(options.inputDir), tree[i]),
                            tree[i].children[k])

\* the creation of the output directory was attempted and failed
MkdirFailed == mkdirs = 1 /\ options.outputDir \notin dirs

\* C16: in every generator the output directory, when one is given, exists
\* before any file write is attempted; when its creation fails, the
\* generator returns a failed result whose one error is the
\* FileSystemError, and no per-icon, index or aggregate write is attempted.
C16_DirectoryBeforeWrites ==
  IsLoad =>
    /\ (writes # <<>> /\ TruthyStr(options, "outputDir")) =>
         mkdirs = 1 /\ options.outputDir \in dirs
    /\ (Rendering /\ TruthyStr(options, "outputDir")) => mkdirs = 1
    /\ MkdirFailed =>
         /\ pc = "done"
         /\ ~result.success
         /\ result.files = <<>>
         /\ result.errors = <<[kind |-> "generation", icon |-> 0,
                               cause |-> "FileSystemError"]>>
         /\ writes = <<>>
         /\ disk = {}

C16_Witness ==
  /\ pc = "done"
  /\ MkdirFailed
  /\ options.format = "json"
  /\ TruthyBool(options, "generateIndex")
  /\ Len(processed) = MaxFiles
  /\ writes = <<>>

\* C17 as stated: a run that a fatal error ended before any output write
\* has returned a result with success = false, a non-empty errors list and
\* no files.
C17_Original ==
  (IsLoad /\ thrown # NoError /\ writes = <<>>) =>
    /\ pc = "done"
    /\ ~result.success
    /\ Len(result.errors) >= 1
    /\ result.files = <<>>

\* C17, amended: an invalid configuration, an empty input, an unreadable
\* input directory and a malformed SVG each end the run by an error thrown
\* to the caller -- by the constructor for the configuration, by process
\* as an SVGProcessingError around the cause for the others -- and then no
\* GenerationResult is returned and no output was written or created; a
\* run that returns a result has thrown nothing.
C17_FatalErrorsAreThrown ==
  IsLoad =>
    /\ pc = "failed" =>
         /\ thrown # NoError
         /\ result = NewResult
         /\ invoked = <<>>
         /\ NoOutputIO
         /\ failedAt = "construct" =>
              thrown \in {<<"ValidationError">>, <<"SVGProcessingError">>}
         /\ failedAt # "construct" =>
              Kind(thrown) = "SVGProcessingError" /\ Len(thrown) >= 2
    /\ (pc # "new" /\ InvalidConfig(options)) =>
         pc = "failed" /\ failedAt = "construct"
    /\ (pc \notin {"new", "collect"} /\ files = <<>>) =>
         pc = "failed" /\ failedAt \in {"construct", "collect"}
    /\ (pc \notin {"new", "collect"} /\ failedAt # "construct"
          /\ fsFault = -1) =>
         pc = "failed" /\ failedAt = "collect"
    /\ (\E i \in 1..Len(files) :
          ValidateSVGContent(files[i].content) # NoError) =>
         ~Rendering
    /\ failedAt = "transform" =>
         /\ pc = "failed"
         /\ ValidateSVGContent(files[Len(processed) + 1].content) # NoError
    /\ pc = "done" => thrown = NoError

C17_Witness ==
  /\ pc = "failed"
  /\ failedAt = "collect"
  /\ fsFault = -1
  /\ Len(tree) = MaxFiles
  /\ thrown = <<"SVGProcessingError", "FileSystemError", "FileSystemError",
                "FileSystemError", "Error">>
  /\ result = NewResult

\* the path is matched by one of the run's ignore patterns
Ignored(path) == ShouldIgnorePath(path, IgnorePatternsArg(options))

\* the paths of the .svg files under the input directory that no ignore
\* pattern matches, the files of a subdirectory counted when subdirectories
\* are included and the subdirectory itself is not ignored
ExpectedSvgPaths ==
  LET root == RootPath(options.inputDir)
      wanted(e, p) == e.kind = "file" /\ e.ext = ".svg" /\ ~Ignored(p)
      top == {i \in 1..Len(tree) : wanted(tree[i], JoinPath(root, tree[i]))}
      subdirs == {i \in 1..Len(tree) :
                    /\ tree[i].kind = "dir"
                    /\ IncludeSubdirsArg(options)
                    /\ ~Ignored(JoinPath(root, tree[i]))}
      inside(i) == {k \in 1..Len(tree[i].children) :
                      wanted(tree[i].children[k],
                             JoinPath(JoinPath(root, tree[i]),
                                      tree[i].children[k]))}
  IN  {JoinPath(root, tree[i]) : i \in top}
      \cup UNION {{JoinPath(JoinPath(root, tree[i]), tree[i].children[k])
                     : k \in inside(i)} : i \in subdirs}

\* C18: when no read fails, readSVGFiles returns exactly the .svg files
\* under the root that no ignore pattern matches -- an ignored directory
\* hides its whole subtree, subdirectories are entered only when
\* includeSubdirs is true, nothing that is not an .svg file is returned --
\* and an empty list, not an error, when there is none (it is readSVGs
\* that then throws its ValidationError).
C18_WalkerReturnsExactlySvgFiles ==
  (IsLoad /\ pc \notin {"new", "collect"} /\ failedAt # "construct"
     /\ fsFault = 0) =>
    IF ExpectedSvgPaths = {}
      THEN /\ pc = "failed"
           /\ failedAt = "collect"
           /\ thrown = <<"SVGProcessingError", "ValidationError">>
           /\ files = <<>>
      ELSE /\ {files[i].path : i \in 1..Len(files)} = ExpectedSvgPaths
           /\ Len(files) = Cardinality(ExpectedSvgPaths)
           /\ \A i \in 1..Len(files) : files[i].extension = ".svg"
           /\ failedAt # "collect"

C18_Witness ==
  /\ pc = "transform"
  /\ Has(options, "ignorePatterns")
  /\ options.ignorePatterns[1].atEnd
  /\ ~Has(options, "includeSubdirs")
  /\ Len(tree) = MaxFiles
  /\ tree[1].kind = "dir"
  /\ Len(tree[1].children) = 2
  /\ Ignored(JoinPath(RootPath(options.inputDir), tree[1]))
  /\ tree[MaxFiles].kind = "file"
  /\ Len(files) = 1

\* C19: within one run the file reads, the optimizer calls and the file
\* writes are issued one after another: at most one of them is outstanding
\* at any moment.
C19_OneOperationAtATime == Len(inflight) <= 1

C19_Witness ==
  /\ inflight = <<"write">>
  /\ reads = MaxFiles
  /\ Len(engineCalls) = MaxFiles
  /\ Len(writes) = MaxFiles - 1
  /\ walked = MaxFiles + 1

\* C20 as stated: in every generator that writes per-icon files, the index
\* or aggregate file is written only after the write of every per-icon
\* file has been attempted.
C20_Original ==
  (Rendering /\ PerIconOutputs) =>
    \A j \in 1..Len(writes) :
      writes[j].target \in {"index", "main"} =>
        \A i \in 1..Len(processed) :
          \E k \in 1..(j - 1) :
            writes[k].target = "icon" /\ writes[k].icon = i

\* C20, amended: the React and SVG generators write the index file after
\* the write of every per-icon file has been attempted; the JSON generator
\* writes its aggregate file first, before any per-icon file.  A failed
\* index or aggregate write adds an entry to errors, and every file written
\* before it stays recorded in files and on disk.
C20_IndexAfterIcons ==
  /\ \A j \in 1..Len(writes) :
       /\ writes[j].target = "index" =>
            /\ writes[j].by \in {"ReactGenerator", "SVGGenerator"}
            /\ j = Len(processed) + 1
            /\ \A i \in 1..Len(processed) :
                 writes[i].target = "icon" /\ writes[i].icon = i
       /\ writes[j].target = "main" =>
            writes[j].by = "JSONGenerator" /\ j = 1
       /\ (pc = "done" /\ writes[j].target \in {"index", "main"}
             /\ ~writes[j].ok) =>
            /\ ~result.success
            /\ \E e \in 1..Len(result.errors) :
                 result.errors[e].kind = writes[j].target
            /\ \A k \in 1..(j - 1) :
                 writes[k].ok =>
                   /\ writes[k].path \in disk
                   /\ \E f \in 1..Len(result.files) :
                        result.files[f] = writes[k].path
  /\ \A f \in 1..Len(result.files) : result.files[f] \in disk

C20_Witness ==
  /\ pc = "done"
  /\ options.format = "react"
  /\ Len(writes) = MaxFiles + 1
  /\ writes[MaxFiles + 1].target = "index"
  /\ ~writes[MaxFiles + 1].ok
  /\ \A k \in 1..MaxFiles : writes[k].ok
  /\ Len(result.files) = MaxFiles
  /\ Len(result.errors) = 1

\* the error that the failed phase of process threw into process' catch,
\* read off the inputs of the run: readSVGs throws a ValidationError for an
\* empty result and a FileSystemError around the walker's error, and
\* processSVGs throws what validateSVGContent threw for the file at hand
OriginallyThrown ==
  IF failedAt = "transform"
    THEN ValidateSVGContent(files[Len(processed) + 1].content)
    ELSE IF fsFault = 0
           THEN <<"ValidationError">>
           ELSE <<"FileSystemError">>
                  \o ReadSVGFiles(options.inputDir, IncludeSubdirsArg(options),
                                  IgnorePatternsArg(options), tree, fsFault).err

\* C21: every error that escapes process is an SVGProcessingError whose
\* details.originalError is the error originally thrown, unchanged, so the
\* kind of the root cause stays recoverable
C21_ProcessKeepsOriginalError ==
  (pc = "failed" /\ failedAt \in {"collect", "transform"}) =>
    /\ Kind(thrown) = "SVGProcessingError"
    /\ Tail(thrown) # NoError
    /\ Tail(thrown) = OriginallyThrown
    /\ Kind(Tail(thrown)) \in
         {"ValidationError", "FileSystemError", "SVGProcessingError"}

C21_Witness ==
  /\ pc = "failed"
  /\ failedAt = "transform"
  /\ Len(processed) = 1
  /\ thrown = <<"SVGProcessingError", "ValidationError">>

\* the writes of component files by the React generator
ComponentWrites ==
  {k \in 1..Len(writes) :
     writes[k].target = "icon" /\ writes[k].by = "ReactGenerator"}

\* C22: with format react, each entry of options.svgProps is an attribute of
\* the wrapping svg element of every component written
C22_SvgPropsApplied ==
  (IsLoad /\ Has(options, "svgProps")) =>
    \A k \in ComponentWrites :
      \A p \in DOMAIN options.svgProps :
        /\ p \in DOMAIN writes[k].content.svgAttributes
        /\ writes[k].content.svgAttributes[p] = options.svgProps[p]

\* the phase of process that a position of the run belongs to
PhaseRank(p) ==
  CASE p = "new" -> 1
    [] p = "collect" -> 2
    [] p = "transform" -> 3
    [] p \in {"icons", "jsonMain", "jsonIcons"} -> 4
    [] OTHER -> 5

\* every collected file has completed validate / extract / optimize
AllTransformed ==
  /\ walked = FinalWalkOp
  /\ files # <<>>
  /\ Len(processed) = Len(files)
  /\ Len(engineLog) = Len(files)
  /\ \A i \in 1..Len(files) :
       /\ ValidateSVGContent(files[i].content) = NoError
       /\ processed[i].metadata.path = files[i].path

\* C23: the phases Validate -> Collect -> Transform -> Render never step
\* back; an output file is written or an output directory created only when
\* every collected file has been transformed; after the first output write
\* no input is read and no file is transformed
C23_PhasesStrictlyOrdered ==
  [][IsLoad =>
       /\ PhaseRank(pc') >= PhaseRank(pc)
       /\ (writes' # writes \/ mkdirs' # mkdirs \/ disk' # disk
             \/ dirs' # dirs \/ invoked' # invoked) =>
            AllTransformed /\ PhaseRank(pc) \in {3, 4}
       /\ (writes # <<>> \/ mkdirs > 0) =>
            /\ reads' = reads
            /\ walked' = walked
            /\ files' = files
            /\ processed' = processed
            /\ engineLog' = engineLog]_vars

C23_Witness ==
  /\ pc = "done"
  /\ Len(files) = MaxFiles
  /\ reads = MaxFiles
  /\ Len(writes) > MaxFiles
  /\ mkdirs = 1
  /\ AllTransformed

\* the options that a call puts in effect when the defaults are the ones
\* the module was loaded with
InEffectByOwnOptions ==
  CASE effective.call \in {"optimizeSVG", "load"} ->
         SvgoMergeFrom(defaultOptions, effective.given)
    [] effective.call = "generateComponents" ->
         GeneratePropsFrom(defaultProps, effective.svg, effective.given)
    [] effective.call = "getDefaultOptions" -> GetDefaultOptions

OkWrites == {k \in 1..Len(writes) : writes[k].ok}

\* C25: the paths in files of a returned result are pairwise distinct, and
\* no write of a run goes to a path written earlier in the same run
C25_OutputPathsDistinct ==
  (IsLoad /\ pc = "done") =>
    /\ \A i, j \in 1..Len(result.files) :
         i # j => result.files[i] # result.files[j]
    /\ \A i, j \in OkWrites : i # j => writes[i].path # writes[j].path

\* the React index files written by the run
ReactIndexWrites ==
  {k \in OkWrites :
     writes[k].target = "index" /\ writes[k].by = "ReactGenerator"}

\* a component file was written to which the module path ./from resolves
ComponentWritten(from) ==
  \E k \in OkWrites :
    /\ writes[k].target = "icon"
    /\ \E ext \in {".tsx", ".jsx"} :
         writes[k].path = OutPath(options, from, ext)

\* C26: every re-export line of the React index file refers to a module
\* path for which a component file was written in the same run
C26_IndexExportsWrittenComponents ==
  IsLoad =>
    \A k \in ReactIndexWrites :
      \A i \in 1..Len(writes[k].content.exports) :
        ComponentWritten(writes[k].content.exports[i].from)

\* the writes of the JSON aggregate file
AggregateWrites == {k \in 1..Len(writes) : writes[k].target = "main"}

\* C27: in the JSON aggregate output metadata.totalIcons is the number of
\* keys of the icons map
C27_TotalIconsCountsKeys ==
  IsLoad =>
    \A k \in AggregateWrites :
      writes[k].content.metadata.totalIcons
        = Cardinality(DOMAIN writes[k].content.icons)

\* the per-icon loop of the React or the SVG renderer is running or over
InIconLoop ==
  /\ IsLoad
  /\ pc \in {"icons", "done"}
  /\ invoked # <<>>
  /\ Generator \in {"ReactGenerator", "SVGGenerator"}
  /\ ~DirectoryFailed

\* the per-icon paths in files: the index path, pushed after the loop, is
\* left out
IconPathsInFiles ==
  IF \E k \in OkWrites : writes[k].target = "index"
    THEN SubSeq(result.files, 1, Len(result.files) - 1)
    ELSE result.files

\* the per-icon entries in errors
IconErrors == SelectSeq(result.errors, LAMBDA e : e.kind = "icon")

\* C28: in the React and SVG renderers every icon taken by the per-icon
\* loop has contributed exactly one path to files (its write succeeded) or
\* exactly one entry to errors (its write failed); after the loop the two
\* counts add up to the number of processed icons
C28_OnePathOrOneErrorPerIcon ==
  InIconLoop =>
    /\ Len(IconPathsInFiles) + Len(IconErrors) = Len(IconWrites)
    /\ \A i \in 1..Len(IconWrites) :
         LET paths == Len(SelectSeq(SubSeq(IconWrites, 1, i), LAMBDA w : w.ok))
             errs == {e \in 1..Len(IconErrors) : IconErrors[e].icon = i}
         IN  /\ IconWrites[i].icon = i
             /\ IF IconWrites[i].ok
                  THEN /\ errs = {}
                       /\ IconPathsInFiles[paths] = IconWrites[i].path
                  ELSE Cardinality(errs) = 1
    /\ (pc = "done" \/ cur > Len(processed)) =>
         Len(IconPathsInFiles) + Len(IconErrors) = Len(processed)

C28_Witness ==
  /\ InIconLoop
  /\ pc = "done"
  /\ Generator = "ReactGenerator"
  /\ Len(processed) = MaxFiles
  /\ Len(IconPathsInFiles) = 1
  /\ Len(IconErrors) = 1
  /\ Len(result.files) = 2

\* the name token of the attribute that is named exactly `a`
ExactNameToken ==
  [width |-> "width=", height |-> "height=", fill |-> "fill=",
   stroke |-> "stroke="]

\* the positions in the markup of an attribute named exactly `a`
AttributesNamed(content, a) ==
  {j \in 1..(Len(content) - 1) : content[j] = ExactNameToken[a]}

\* C29: extractSVGAttributes reports as width (height, fill, stroke) only
\* the value of an attribute with exactly that name; markup without such an
\* attribute yields no such key
C29_OnlyExactlyNamedAttributes ==
  IsLoad =>
    \A i \in 1..Len(processed) :
      \A a \in DOMAIN ExactNameToken :
        Has(processed[i].metadata, a) =>
          \E j \in AttributesNamed(files[i].content, a) :
            processed[i].metadata[a] = files[i].content[j + 1]

\* the run has finished: a GenerationResult was returned or an error thrown
Finished == pc \in {"done", "failed"}

\* the runs over directory trees with subdirectories and the runs of every
\* renderer with and without an index, and the direct optimizeSVG calls
FairInit ==
  \/ InitLoad /\ options \in WalkOptions \cup NamingOptions
  \/ InitOptimize

\* every step of a run that is enabled is eventually taken: the runtime
\* resumes a function whose awaited call has settled, and every filesystem
\* and optimizer call eventually settles
FairSpec == FairInit /\ [][Next]_vars /\ WF_vars(Next)

\* C30: over a finite input tree, when every awaited call eventually
\* returns, every run of load eventually finishes
C30_LoadTerminates == IsLoad ~> Finished

C30_Witness ==
  /\ Finished
  /\ pc = "done"
  /\ Len(files) = MaxFiles
  /\ \E i \in 1..Len(files) : Len(files[i].path) = 3

====
